---- MODULE Spec2Model ----
(***************************************************************************)
(* Cricket Motion Analyzer: frame sampler, landmark extractor, feature     *)
(* calculator, overlay renderer, pipeline orchestrator and dashboard.      *)
(*                                                                         *)
(* Angles are carried in thousandths of a degree (integers); coordinates   *)
(* are points of an integer grid (atan2 is invariant under scaling, so a   *)
(* normalised coordinate k/MaxCoord is carried as k).                      *)
(***************************************************************************)
EXTENDS Integers, Sequences, FiniteSets, TLC

VARIABLES
    inp, out,                       \* a direct call of one function: its arguments, its result
    rIdx, trail, hist, radii, lastVisible,   \* the renderer's frame loop
    entry, video, fps, pc, frames, unreadable, jsons, kpFiles, rows,
    skips, overlay, fs, calls, dash \* run_pipeline and the dashboard handler

vars == <<inp, out, rIdx, trail, hist, radii, lastVisible,
          entry, video, fps, pc, frames, unreadable, jsons, kpFiles, rows,
          skips, overlay, fs, calls, dash>>

callVars == <<inp, out>>
loopVars == <<rIdx, trail, hist, radii, lastVisible>>
pipeVars == <<entry, video, fps, pc, frames, unreadable, jsons, kpFiles, rows,
              skips, overlay, fs, calls, dash>>

(***************************************************************************)
(* Bounds of the model                                                     *)
(***************************************************************************)
MaxCoord == 2          \* grid coordinates 0..MaxCoord
MaxFrames == 10        \* decodable frames of a video given to extract_frames
MaxFps == 30           \* native and target rates given to extract_frames

None == [none |-> TRUE]

Grid == (0..MaxCoord) \X (0..MaxCoord)

(***************************************************************************)
(* Arithmetic helpers                                                      *)
(***************************************************************************)
Abs(x) == IF x < 0 THEN -x ELSE x

Max2(x, y) == IF x >= y THEN x ELSE y

Min2(x, y) == IF x <= y THEN x ELSE y

RECURSIVE Gcd(_, _)
Gcd(x, y) == IF y = 0 THEN x ELSE Gcd(y, x % y)

Deg(d) == d * 1000

\* atan(p/q) for 0 <= p <= q, q > 0, in thousandths of a degree (rounded).
AtanOctant(p, q) ==
    LET g == Gcd(q, p)
        n == p \div g
        d == q \div g
    IN  CASE n = 0 -> 0
          [] n = 1 /\ d = 1 -> 45000
          [] n = 1 /\ d = 2 -> 26565
          [] n = 1 /\ d = 3 -> 18435
          [] n = 2 /\ d = 3 -> 33690
          [] n = 1 /\ d = 4 -> 14036
          [] n = 3 /\ d = 4 -> 36870
          [] n = 1 /\ d = 5 -> 11310
          [] n = 2 /\ d = 5 -> 21801
          [] n = 3 /\ d = 5 -> 30964
          [] n = 4 /\ d = 5 -> 38660
          [] n = 1 /\ d = 6 -> 9462
          [] n = 5 /\ d = 6 -> 39806

\* atan(y/x) for x, y >= 0, not both 0.
AtanQuadrant(y, x) ==
    IF y <= x THEN AtanOctant(y, x) ELSE Deg(90) - AtanOctant(x, y)

\* math.degrees(math.atan2(y, x)): the result lies in (-180, 180];
\* atan2(0, 0) = 0 and atan2(0, x) = 180 for x < 0.
Atan2Deg(y, x) ==
    CASE x = 0 /\ y = 0 -> 0
      [] x > 0 /\ y >= 0 -> AtanQuadrant(y, x)
      [] x > 0 /\ y < 0 -> -AtanQuadrant(-y, x)
      [] x <= 0 /\ y > 0 -> Deg(180) - AtanQuadrant(y, -x)
      [] x < 0 /\ y = 0 -> Deg(180)
      [] x <= 0 /\ y < 0 -> -(Deg(180) - AtanQuadrant(-y, -x))

(***************************************************************************)
(* _angle (feature_extractor.py and renderer.py)                           *)
(***************************************************************************)
\* The raw difference of the two atan2 terms, in (-360, 360).
RawAngle(a, b, c) ==
    Atan2Deg(c[2] - b[2], c[1] - b[1]) - Atan2Deg(a[2] - b[2], a[1] - b[1])

_angle(a, b, c) ==
    LET ang == RawAngle(a, b, c)
    IN  Abs(IF ang < Deg(180) THEN ang ELSE Deg(360) - ang)

renderer_angle(a, b, c) ==
    LET ang == Atan2Deg(c[2] - b[2], c[1] - b[1]) - Atan2Deg(a[2] - b[2], a[1] - b[1])
    IN  Abs(IF ang < Deg(180) THEN ang ELSE Deg(360) - ang)

(***************************************************************************)
(* Paths                                                                   *)
(*   a directory is a sequence of names; a file is [dir, stem, ext]        *)
(***************************************************************************)
File(dir, stem, ext) == [dir |-> dir, stem |-> stem, ext |-> ext]

\* Path(p).stem
Stem(p) == p.stem

DigitChar(d) == <<"0", "1", "2", "3", "4", "5", "6", "7", "8", "9">>[d + 1]

\* f"{n:05d}": at least five digits, zero padded.
RECURSIVE Digits(_)
Digits(n) == IF n < 10 THEN <<DigitChar(n)>> ELSE Append(Digits(n \div 10), DigitChar(n % 10))

RECURSIVE ZeroPad(_, _)
ZeroPad(ds, width) == IF Len(ds) >= width THEN ds ELSE ZeroPad(<<"0">> \o ds, width)

Pad5(n) == ZeroPad(Digits(n), 5)

\* f"frame_{saved_idx:05d}"
FrameStem(saved_idx) == <<"frame_">> \o Pad5(saved_idx)

(***************************************************************************)
(* extract_frames (video_extractor.py)                                     *)
(*   a video is [name, exists, openable, n, native_fps]; of a written      *)
(*   frame the model keeps the index of the source frame it holds (src)    *)
(***************************************************************************)
StrideCeil(native_fps, target) == Max2((native_fps + target - 1) \div target, 1)

\* int(max(native_fps // fps, 1))
Stride(native_fps, target) == Max2(native_fps \div target, 1)

\* The while loop: cap.read() succeeds for idx < n.
RECURSIVE SampleLoop(_, _, _, _, _, _)
SampleLoop(n, stride, dir, idx, saved_idx, saved) ==
    IF idx >= n THEN saved
    ELSE IF idx % stride = 0
         THEN SampleLoop(n, stride, dir, idx + 1, saved_idx + 1,
                         Append(saved, [path |-> File(dir, FrameStem(saved_idx), "jpg"),
                                        src |-> idx]))
         ELSE SampleLoop(n, stride, dir, idx + 1, saved_idx, saved)

extract_frames(v, output_dir, target) ==
    IF ~v.exists THEN [raised |-> "FileNotFoundError", saved |-> <<>>]
    ELSE IF ~v.openable THEN [raised |-> "RuntimeError", saved |-> <<>>]
    ELSE IF v.native_fps = 0 THEN [raised |-> "RuntimeError", saved |-> <<>>]
    ELSE [raised |-> "no",
          saved |-> SampleLoop(v.n, Stride(v.native_fps, target), output_dir, 0, 0, <<>>)]

(***************************************************************************)
(* Landmark records                                                        *)
(*   a record maps the indices 0..count-1 (the pose model's enumerate) to  *)
(*   [x, y, vis]; x, y are grid coordinates, vis is in hundredths; z is    *)
(*   read by no computation below and is left out                          *)
(***************************************************************************)
FullCount == 33

LandmarkCounts == {FullCount, 20, 13}

JointAt(i, shoulder, hip, wrist) ==
    CASE i = 12 -> shoulder
      [] i = 14 -> <<1, 1>>
      [] i = 16 -> wrist
      [] i = 24 -> hip
      [] i = 26 -> <<1, 2>>
      [] i = 28 -> <<0, 2>>
      [] OTHER -> <<1, 0>>

Landmarks(count, shoulder, hip, wrist, vis16) ==
    [i \in 0..(count - 1) |->
        [x |-> JointAt(i, shoulder, hip, wrist)[1],
         y |-> JointAt(i, shoulder, hip, wrist)[2],
         vis |-> IF i = 16 THEN vis16 ELSE 90]]

(***************************************************************************)
(* extract_pose_from_frames (pose_estimator.py)                            *)
(*   unread: the frame paths cv2.imread cannot decode;                     *)
(*   detect[i]: what the pose model returns for frame i, [found, lm]       *)
(***************************************************************************)
RECURSIVE PoseLoop(_, _, _, _, _, _)
PoseLoop(frame_paths, output_dir, unread, detect, i, acc) ==
    IF i > Len(frame_paths) THEN acc
    ELSE IF frame_paths[i] \in unread \/ ~detect[i].found
         THEN PoseLoop(frame_paths, output_dir, unread, detect, i + 1,
                       [acc EXCEPT !.skipped = @ \cup {i}])
         ELSE LET jpath == File(output_dir, Stem(frame_paths[i]), "json")
              IN  PoseLoop(frame_paths, output_dir, unread, detect, i + 1,
                           [acc EXCEPT !.saved = Append(@, jpath),
                                       !.files = @ \cup {[path |-> jpath,
                                                          lm |-> detect[i].lm,
                                                          from |-> i]}])

extract_pose_from_frames(frame_paths, output_dir, unread, detect) ==
    PoseLoop(frame_paths, output_dir, unread, detect, 1,
             [saved |-> <<>>, files |-> {}, skipped |-> {}])

\* json.load(open(jpath)): the record stored under jpath.
Load(files, jpath) == (CHOOSE f \in files : f.path = jpath).lm

(***************************************************************************)
(* extract_biomechanics (feature_extractor.py)                             *)
(***************************************************************************)
RequiredIdx == {12, 14, 16, 24, 26, 28}

\* pt(i) raises KeyError when the record lacks index i.
HasAll(lm, idxs) == idxs \subseteq DOMAIN lm

pt(lm, i) == <<lm[i].x, lm[i].y>>

FeatureRow(jpath, lm) ==
    [frame |-> Stem(jpath),
     r_elbow_deg |-> _angle(pt(lm, 12), pt(lm, 14), pt(lm, 16)),
     r_knee_deg |-> _angle(pt(lm, 24), pt(lm, 26), pt(lm, 28)),
     trunk_deg |-> Atan2Deg(pt(lm, 12)[2] - pt(lm, 24)[2], pt(lm, 12)[1] - pt(lm, 24)[1])]

\* The except branch: LOGGER.debug("...", jpath.name) evaluates jpath.name,
\* which a str does not have: AttributeError leaves the function.
SkipKeepsRow(kind, i, acc) ==
    [acc EXCEPT !.skipped = @ \cup {i},
                !.rows = Append(@, [frame |-> <<>>, r_elbow_deg |-> 0,
                                    r_knee_deg |-> 0, trunk_deg |-> 0])]

OnKeyError(kind, i, acc) ==
    IF kind = "str"
    THEN [acc EXCEPT !.raised = "AttributeError"]
    ELSE [acc EXCEPT !.skipped = @ \cup {i}]

RECURSIVE FeatureLoop(_, _, _, _, _)
FeatureLoop(json_paths, kind, files, i, acc) ==
    IF i > Len(json_paths) \/ acc.raised # "no" THEN acc
    ELSE LET lm == Load(files, json_paths[i])
         IN  IF HasAll(lm, RequiredIdx)
             THEN FeatureLoop(json_paths, kind, files, i + 1,
                              [acc EXCEPT !.rows = Append(@, FeatureRow(json_paths[i], lm))])
             ELSE FeatureLoop(json_paths, kind, files, i + 1, OnKeyError(kind, i, acc))

\* df.to_csv runs only when the loop was left normally.
extract_biomechanics(json_paths, kind, files) ==
    LET r == FeatureLoop(json_paths, kind, files, 1,
                         [raised |-> "no", rows |-> <<>>, skipped |-> {}])
    IN  [raised |-> r.raised,
         rows |-> r.rows,
         skipped |-> r.skipped,
         csv_written |-> (r.raised = "no")]

(***************************************************************************)
(* render_skeleton_video (renderer.py)                                     *)
(***************************************************************************)
JOINT_R == 6

TRAIL_LEN == 15

\* lm[i]["vis"] > 0.3, in hundredths
VisThreshold == 30

\* The frame size read from the first frame: coordinate k stands for
\* k / MaxCoord, so int(x * w) = (k * w) \div MaxCoord.
FrameW == 2 * MaxCoord

FrameH == 3 * MaxCoord

\* pts: the pixel positions of the landmarks with visibility above the threshold
Pts(lm, w, h) ==
    [i \in {k \in DOMAIN lm : lm[k].vis > VisThreshold} |->
        <<(lm[i].x * w) \div MaxCoord, (lm[i].y * h) \div MaxCoord>>]

DequeAppendUnbounded(tr, p) == Append(tr, p)

\* deque(maxlen=TRAIL_LEN).append: a full deque drops its oldest entry
DequeAppend(tr, p) ==
    IF Len(tr) >= TRAIL_LEN THEN Append(Tail(tr), p) ELSE Append(tr, p)

\* The pairs (t, n), n <= 16, at which the double JOINT_R * (1.0 - t/n)
\* falls just short of the integer 6 * (n - t) / n, so that int() gives one less.
FloatShortfall(t, n) == <<t, n>> \in {<<5, 6>>, <<10, 12>>}

\* int(JOINT_R * (1.0 - t / len(trail))), the trail being non-empty
TrailRadius(t, n) ==
    ((JOINT_R * (n - t)) \div n) - (IF FloatShortfall(t, n) THEN 1 ELSE 0)

\* One pass of the loop body on a decoded frame: the trail after line 86,
\* the radii drawn from the most recent entry (t = 0) to the oldest, the
\* elbow read-out (None when 12, 14 or 16 is not visible).
RenderIter(tr, lm, w, h) ==
    LET pts == Pts(lm, w, h)
        tr2 == IF 16 \in DOMAIN pts THEN DequeAppend(tr, pts[16]) ELSE tr
    IN  [trail |-> tr2,
         radii |-> [k \in 1..Len(tr2) |-> TrailRadius(k - 1, Len(tr2))],
         visible16 |-> 16 \in DOMAIN pts,
         elbow |-> IF {12, 14, 16} \subseteq DOMAIN pts
                   THEN [deg |-> renderer_angle(pts[12], pts[14], pts[16])]
                   ELSE None]

\* The sequences paired by zip(frame_paths, json_paths).
ZipLen(frame_paths, json_paths) == Min2(Len(frame_paths), Len(json_paths))

RECURSIVE RenderLoop(_, _, _, _, _, _)
RenderLoop(frame_paths, json_paths, files, unread, i, acc) ==
    IF i > ZipLen(frame_paths, json_paths) \/ acc.raised # "no" THEN acc
    ELSE IF frame_paths[i] \in unread
         THEN [acc EXCEPT !.raised = "cv2.error"]
         ELSE LET it == RenderIter(acc.trail, Load(files, json_paths[i]), FrameW, FrameH)
              IN  RenderLoop(frame_paths, json_paths, files, unread, i + 1,
                             [acc EXCEPT !.trail = it.trail,
                                         !.written = Append(@,
                                             [frame |-> frame_paths[i],
                                              record |-> json_paths[i],
                                              radii |-> it.radii,
                                              elbow |-> it.elbow,
                                              counter |-> <<i, Len(frame_paths)>>])])

\* opened: the VideoWriter was created (the output file exists).
render_skeleton_video(frame_paths, json_paths, files, unread) ==
    IF frame_paths = <<>>
    THEN [raised |-> "IndexError", opened |-> FALSE, written |-> <<>>, trail |-> <<>>]
    ELSE IF frame_paths[1] \in unread
    THEN [raised |-> "AttributeError", opened |-> FALSE, written |-> <<>>, trail |-> <<>>]
    ELSE RenderLoop(frame_paths, json_paths, files, unread, 1,
                    [raised |-> "no", opened |-> TRUE, written |-> <<>>, trail |-> <<>>])

(***************************************************************************)
(* run_pipeline (main.py) and the dashboard handler (streamlit_app.py)     *)
(***************************************************************************)
ProjectDir == <<"srv", "Cricket_Motion_Analizer">>

\* __file__ of src/main.py and of streamlit_app.py
MainFile == File(ProjectDir \o <<"src">>, <<"main">>, "py")

AppFile == File(ProjectDir, <<"streamlit_app">>, "py")

\* Path(f).parents[i]: parents[0] is the file's directory
Parents(f, i) == SubSeq(f.dir, 1, Len(f.dir) - i)

PipelineRoot == Parents(MainFile, 1)

DashboardRoot == Parents(AppFile, 1)

FramesDir(root, vid_name) == root \o <<"data", "extracted_frames", vid_name>>

KpDir(root, vid_name) == root \o <<"data", "keypoints", vid_name>>

AnalysisDir(root) == root \o <<"data", "analysis">>

CsvOut(root, vid_name) == File(AnalysisDir(root), <<vid_name, "_features">>, "csv")

Mp4Out(root, vid_name) == File(AnalysisDir(root), <<vid_name, "_visualized">>, "mp4")

StageOrder ==
    <<"extract_frames", "extract_pose_from_frames", "extract_biomechanics",
      "render_skeleton_video", "plot_pose_3d">>

\* What run_pipeline does after a stage returned its manifest.
AfterFrames(manifest) ==
    IF manifest = <<>> THEN "returned" ELSE "extract_pose_from_frames"

AfterPoseAlways(manifest) == "extract_biomechanics"

AfterPose(manifest) ==
    IF manifest = <<>> THEN "returned" ELSE "extract_biomechanics"

Called(log, fn) == Append(log, [fn |-> fn, ev |-> "call"])

Ended(log, fn, how) == Append(log, [fn |-> fn, ev |-> how])

Mkdir(f, dir) == [f EXCEPT !.dirs = @ \cup {dir}]

WriteFiles(f, paths) == [f EXCEPT !.files = @ \cup paths]

Range(q) == {q[i] : i \in DOMAIN q}

(***************************************************************************)
(* Idle values of the variables a specification does not use               *)
(***************************************************************************)
CallIdle == inp = None /\ out = None

LoopIdle ==
    /\ rIdx = 0
    /\ trail = <<>>
    /\ hist = <<>>
    /\ radii = <<>>
    /\ lastVisible = FALSE

PipeIdle ==
    /\ entry = "none"
    /\ video = None
    /\ fps = 0
    /\ pc = "none"
    /\ frames = <<>>
    /\ unreadable = {}
    /\ jsons = <<>>
    /\ kpFiles = {}
    /\ rows = <<>>
    /\ skips = [pose |-> {}, feat |-> {}]
    /\ overlay = None
    /\ fs = [files |-> {}, dirs |-> {}]
    /\ calls = <<>>
    /\ dash = None

(***************************************************************************)
(* Spec: run_pipeline on one video, from the command line or from the      *)
(*   dashboard's Analyze handler                                           *)
(***************************************************************************)
MaxPipeFrames == 3     \* decodable frames of the video
MaxPipeFps == 2        \* native and target rates

\* st.slider("Sampling FPS", min_value=2, max_value=15, value=5)
SliderMin == 2

SliderMax == 15

TmpDir == <<"tmp", "tmpdir">>

PipelineVideos ==
    {v \in [name : {"clip"}, exists : BOOLEAN, openable : BOOLEAN,
            n : 0..MaxPipeFrames, native_fps : 0..MaxPipeFps] :
        /\ (~v.exists => ~v.openable)
        /\ (~v.openable => v.n = 0 /\ v.native_fps = 0)}

\* What the pose model can return for a frame: all 33 landmarks with the wrist
\* visible, a short landmark list, or no pose.
Detections ==
    {[found |-> TRUE, lm |-> Landmarks(FullCount, <<2, 0>>, <<1, 1>>, <<2, 2>>, 90)],
     [found |-> TRUE, lm |-> Landmarks(13, <<2, 0>>, <<1, 1>>, <<2, 2>>, 90)],
     [found |-> FALSE, lm |-> <<>>]}

Init ==
    /\ entry \in {"cli", "dashboard"}
    /\ IF entry = "cli"
       THEN /\ video \in PipelineVideos
            /\ fps \in 1..MaxPipeFps
            /\ pc = "extract_frames"
       ELSE /\ video \in {v \in PipelineVideos : v.exists} \cup {None}
            /\ fps \in SliderMin..Min2(SliderMax, Max2(SliderMin, MaxPipeFps))
            /\ pc = "handler"
    /\ frames = <<>>
    /\ unreadable = {}
    /\ jsons = <<>>
    /\ kpFiles = {}
    /\ rows = <<>>
    /\ skips = [pose |-> {}, feat |-> {}]
    /\ overlay = None
    /\ fs = [files |-> {}, dirs |-> {}]
    /\ calls = <<>>
    /\ dash = None
    /\ CallIdle
    /\ LoopIdle

\* streamlit_app.py: the else branch, nothing uploaded or Analyze not pressed
ShowInfo ==
    /\ pc = "handler"
    /\ video = None
    /\ pc' = "info"
    /\ UNCHANGED <<entry, video, fps, frames, unreadable, jsons, kpFiles, rows,
                   skips, overlay, fs, calls, dash, callVars, loopVars>>

\* streamlit_app.py: the upload is written to a temporary directory and
\* run_pipeline(vid_path, fps) is entered
SaveUpload ==
    /\ pc = "handler"
    /\ video # None
    /\ fs' = WriteFiles(Mkdir(fs, TmpDir), {File(TmpDir, <<video.name>>, "mp4")})
    /\ pc' = "extract_frames"
    /\ UNCHANGED <<entry, video, fps, frames, unreadable, jsons, kpFiles, rows,
                   skips, overlay, calls, dash, callVars, loopVars>>

\* main.py 39-43. A frame whose cv2.imwrite failed is one cv2.imread cannot
\* decode later: any subset of the manifest.
ExtractFramesStage ==
    /\ pc = "extract_frames"
    /\ LET dir == FramesDir(PipelineRoot, video.name)
           r == extract_frames(video, dir, fps)
           paths == [i \in DOMAIN r.saved |-> r.saved[i].path]
       IN  \E bad \in SUBSET Range(paths) :
             /\ unreadable' = bad
             /\ fs' = WriteFiles(Mkdir(fs, dir), Range(paths) \ bad)
             /\ IF r.raised # "no"
                THEN /\ calls' = Ended(Called(calls, "extract_frames"), "extract_frames", "raise")
                     /\ frames' = frames
                     /\ pc' = "raised"
                ELSE /\ calls' = Ended(Called(calls, "extract_frames"), "extract_frames", "return")
                     /\ frames' = paths
                     /\ pc' = AfterFrames(paths)
    /\ UNCHANGED <<entry, video, fps, jsons, kpFiles, rows, skips, overlay, dash,
                   callVars, loopVars>>

\* main.py 45-49
PoseStage ==
    /\ pc = "extract_pose_from_frames"
    /\ \E detect \in [1..Len(frames) -> Detections] :
         LET dir == KpDir(PipelineRoot, video.name)
             r == extract_pose_from_frames(frames, dir, unreadable, detect)
         IN  /\ jsons' = r.saved
             /\ kpFiles' = r.files
             /\ skips' = [skips EXCEPT !.pose = r.skipped]
             /\ fs' = WriteFiles(Mkdir(fs, dir), Range(r.saved))
             /\ pc' = AfterPose(r.saved)
    /\ calls' = Ended(Called(calls, "extract_pose_from_frames"),
                      "extract_pose_from_frames", "return")
    /\ UNCHANGED <<entry, video, fps, frames, unreadable, rows, overlay, dash,
                   callVars, loopVars>>

\* main.py 51-52: the manifest holds Path objects
BiomechStage ==
    /\ pc = "extract_biomechanics"
    /\ LET r == extract_biomechanics(jsons, "Path", kpFiles)
           csv == CsvOut(PipelineRoot, video.name)
       IN  /\ rows' = r.rows
           /\ skips' = [skips EXCEPT !.feat = r.skipped]
           /\ fs' = IF r.csv_written THEN WriteFiles(Mkdir(fs, csv.dir), {csv}) ELSE fs
           /\ IF r.raised = "no"
              THEN /\ pc' = "render_skeleton_video"
                   /\ calls' = Ended(Called(calls, "extract_biomechanics"),
                                     "extract_biomechanics", "return")
              ELSE /\ pc' = "raised"
                   /\ calls' = Ended(Called(calls, "extract_biomechanics"),
                                     "extract_biomechanics", "raise")
    /\ UNCHANGED <<entry, video, fps, frames, unreadable, jsons, kpFiles, overlay,
                   dash, callVars, loopVars>>

\* main.py 54-56
RenderStage ==
    /\ pc = "render_skeleton_video"
    /\ LET r == render_skeleton_video(frames, jsons, kpFiles, unreadable)
           mp4 == Mp4Out(PipelineRoot, video.name)
       IN  /\ overlay' = r
           /\ fs' = IF r.opened THEN WriteFiles(Mkdir(fs, mp4.dir), {mp4})
                                ELSE Mkdir(fs, mp4.dir)
           /\ IF r.raised = "no"
              THEN /\ pc' = "plot_pose_3d"
                   /\ calls' = Ended(Called(calls, "render_skeleton_video"),
                                     "render_skeleton_video", "return")
              ELSE /\ pc' = "raised"
                   /\ calls' = Ended(Called(calls, "render_skeleton_video"),
                                     "render_skeleton_video", "raise")
    /\ UNCHANGED <<entry, video, fps, frames, unreadable, jsons, kpFiles, rows,
                   skips, dash, callVars, loopVars>>

\* main.py 58-59
PlotStage ==
    /\ pc = "plot_pose_3d"
    /\ calls' = Ended(Called(calls, "plot_pose_3d"), "plot_pose_3d", "return")
    /\ pc' = "returned"
    /\ UNCHANGED <<entry, video, fps, frames, unreadable, jsons, kpFiles, rows,
                   skips, overlay, fs, dash, callVars, loopVars>>

DigitVal(ch) == CHOOSE d \in 0..9 : DigitChar(d) = ch

\* Lexicographic order of two stems "frame_" + digits, as sorted() compares names
RECURSIVE LexLeq(_, _, _)
LexLeq(s1, s2, k) ==
    IF k > Len(s1) THEN TRUE
    ELSE IF k > Len(s2) THEN FALSE
    ELSE IF DigitVal(s1[k]) < DigitVal(s2[k]) THEN TRUE
    ELSE IF DigitVal(s1[k]) > DigitVal(s2[k]) THEN FALSE
    ELSE LexLeq(s1, s2, k + 1)

\* sorted(kp_dir.glob("*.json"))[0], None when the directory is missing or empty
FirstJson(f, kp_dir) ==
    LET found == {x \in f.files : x.dir = kp_dir /\ x.ext = "json"}
    IN  IF kp_dir \notin f.dirs \/ found = {} THEN None
        ELSE CHOOSE x \in found : \A y \in found : LexLeq(x.stem, y.stem, 2)

\* streamlit_app.py 51-64: run_pipeline returned; the handler derives the
\* output paths and reports success
DerivePaths ==
    /\ pc = "returned"
    /\ entry = "dashboard"
    /\ dash' = [csv_path |-> CsvOut(DashboardRoot, video.name),
                mp4_path |-> Mp4Out(DashboardRoot, video.name),
                kp_dir |-> KpDir(DashboardRoot, video.name),
                first_json |-> FirstJson(fs, KpDir(DashboardRoot, video.name))]
    /\ pc' = "complete"
    /\ UNCHANGED <<entry, video, fps, frames, unreadable, jsons, kpFiles, rows,
                   skips, overlay, fs, calls, callVars, loopVars>>

\* streamlit_app.py 66-79: mp4_path.read_bytes(), csv_path.read_bytes()
ShowResults ==
    /\ pc = "complete"
    /\ pc' = IF dash.mp4_path \in fs.files /\ dash.csv_path \in fs.files
             THEN "shown" ELSE "show_failed"
    /\ UNCHANGED <<entry, video, fps, frames, unreadable, jsons, kpFiles, rows,
                   skips, overlay, fs, calls, dash, callVars, loopVars>>

Next ==
    \/ ShowInfo
    \/ SaveUpload
    \/ ExtractFramesStage
    \/ PoseStage
    \/ BiomechStage
    \/ RenderStage
    \/ PlotStage
    \/ DerivePaths
    \/ ShowResults

Spec == Init /\ [][Next]_vars

Returned(log, fn) == \E k \in DOMAIN log : log[k] = [fn |-> fn, ev |-> "return"]

Entered(log, fn) == \E k \in DOMAIN log : log[k] = [fn |-> fn, ev |-> "call"]

\* run_pipeline has returned to its caller without an exception
ReturnedNormally == pc \in {"returned", "complete", "shown", "show_failed"}

\* C1: render_skeleton_video writes one output frame per position of the frame
\* manifest, in order, and the frame at position i is composed from frame i and
\* the landmark record extracted from that same frame (same file stem).
C1_RenderPairsByFrame ==
    (Returned(calls, "render_skeleton_video") /\ overlay # None) =>
        /\ Len(overlay.written) = Len(frames)
        /\ \A i \in 1..Len(overlay.written) :
              /\ overlay.written[i].frame = frames[i]
              /\ Stem(overlay.written[i].record) = Stem(frames[i])
              /\ \E f \in kpFiles : f.path = overlay.written[i].record /\ f.from = i

\* C4: rows <= landmark records <= frames, and both counts equal the frame
\* count only when no frame was skipped at any stage.
C4_CountsOrdered ==
    /\ Len(rows) <= Len(jsons)
    /\ Len(jsons) <= Len(frames)
    /\ (/\ Returned(calls, "extract_biomechanics")
        /\ Len(rows) = Len(frames)
        /\ Len(jsons) = Len(frames)) => (skips.pose = {} /\ skips.feat = {})
    /\ Len(jsons) + Cardinality(skips.pose) =
          (IF Entered(calls, "extract_pose_from_frames") THEN Len(frames) ELSE 0)
    /\ Len(rows) + Cardinality(skips.feat) =
          (IF Entered(calls, "extract_biomechanics") THEN Len(jsons) ELSE 0)

C4_Witness ==
    /\ Returned(calls, "extract_biomechanics")
    /\ Len(frames) = 3
    /\ Len(jsons) = 2
    /\ Len(rows) = 1
    /\ skips.pose # {}
    /\ skips.feat # {}

\* C5: the stages are entered in the order extract_frames,
\* extract_pose_from_frames, extract_biomechanics, render_skeleton_video,
\* plot_pose_3d, each ended before the next is entered; after an empty frame
\* manifest no later stage is entered, after an empty landmark manifest none of
\* the last three is, and in both cases run_pipeline returns normally with no
\* feature table and no overlay video written.
C5_StageOrder ==
    /\ \A k \in DOMAIN calls :
          IF k % 2 = 1
          THEN calls[k] = [fn |-> StageOrder[(k + 1) \div 2], ev |-> "call"]
          ELSE calls[k].fn = calls[k - 1].fn /\ calls[k].ev \in {"return", "raise"}
    /\ Len(calls) <= 2 * Len(StageOrder)
    /\ (Returned(calls, "extract_frames") /\ frames = <<>>) =>
          /\ Len(calls) = 2
          /\ ReturnedNormally
          /\ CsvOut(PipelineRoot, video.name) \notin fs.files
          /\ Mp4Out(PipelineRoot, video.name) \notin fs.files
    /\ (Returned(calls, "extract_pose_from_frames") /\ jsons = <<>>) =>
          /\ Len(calls) = 4
          /\ ReturnedNormally
          /\ CsvOut(PipelineRoot, video.name) \notin fs.files
          /\ Mp4Out(PipelineRoot, video.name) \notin fs.files

C5_Witness ==
    /\ Returned(calls, "extract_pose_from_frames")
    /\ Len(frames) = 2
    /\ jsons = <<>>
    /\ pc = "returned"

\* C6: when the dashboard reports "Analysis complete", the feature-table path,
\* the overlay-video path and the keypoints directory it reads are the paths
\* run_pipeline wrote for that upload, and those artifacts exist.
C6_DashboardReadsPipelineOutput ==
    pc = "complete" =>
        /\ dash.csv_path = CsvOut(PipelineRoot, video.name)
        /\ dash.mp4_path = Mp4Out(PipelineRoot, video.name)
        /\ dash.kp_dir = KpDir(PipelineRoot, video.name)
        /\ dash.csv_path \in fs.files
        /\ dash.mp4_path \in fs.files
        /\ dash.kp_dir \in fs.dirs

(***************************************************************************)
(* SpecAngle: _angle applied to every triple of grid points                *)
(***************************************************************************)
InitAngle ==
    /\ inp \in [a : Grid, b : Grid, c : Grid]
    /\ out = None
    /\ LoopIdle
    /\ PipeIdle

Measure ==
    /\ out = None
    /\ out' = [raw |-> RawAngle(inp.a, inp.b, inp.c),
               fe |-> _angle(inp.a, inp.b, inp.c),
               feSwapped |-> _angle(inp.c, inp.b, inp.a),
               re |-> renderer_angle(inp.a, inp.b, inp.c),
               reSwapped |-> renderer_angle(inp.c, inp.b, inp.a)]
    /\ UNCHANGED <<inp, loopVars, pipeVars>>

NextAngle == Measure

SpecAngle == InitAngle /\ [][NextAngle]_vars

\* C3: _angle(a, b, c), in feature_extractor and in renderer, returns a value
\* in the closed range [0, 180] degrees for every triple of points.
C3_AngleInRange ==
    out # None =>
        /\ 0 <= out.fe /\ out.fe <= Deg(180)
        /\ 0 <= out.re /\ out.re <= Deg(180)

\* C9: exchanging the two non-vertex points only negates the raw difference,
\* so _angle(a, b, c) and _angle(c, b, a) return the same value.
C9_AngleSymmetric ==
    out # None =>
        /\ out.fe = out.feSwapped
        /\ out.re = out.reSwapped

(***************************************************************************)
(* SpecSampler: extract_frames called on a video                           *)
(***************************************************************************)
SamplerDir == <<"out">>

InitSampler ==
    /\ inp \in [video : [name : {"clip"}, exists : BOOLEAN, openable : BOOLEAN,
                         n : 0..MaxFrames, native_fps : 0..MaxFps],
                fps : 1..MaxFps]
    /\ out = None
    /\ LoopIdle
    /\ PipeIdle

Sample ==
    /\ out = None
    /\ out' = extract_frames(inp.video, SamplerDir, inp.fps)
    /\ UNCHANGED <<inp, loopVars, pipeVars>>

NextSampler == Sample

SpecSampler == InitSampler /\ [][NextSampler]_vars

CeilDiv(x, y) == (x + y - 1) \div y

\* C2: for N decodable frames, native rate F > 0 and target R with 1 <= R <= F,
\* extract_frames keeps exactly the source frames 0, stride, 2*stride, ... with
\* stride = max(floor(F/R), 1), returns ceil(N/stride) paths and names them
\* frame_00000, frame_00001, ... in manifest order.
C2_SamplerManifest ==
    (/\ out # None
     /\ inp.video.exists /\ inp.video.openable
     /\ inp.video.native_fps > 0
     /\ inp.fps <= inp.video.native_fps) =>
        LET stride == Max2(inp.video.native_fps \div inp.fps, 1)
        IN  /\ out.raised = "no"
            /\ Len(out.saved) = CeilDiv(inp.video.n, stride)
            /\ \A i \in 1..Len(out.saved) :
                  /\ out.saved[i].src = (i - 1) * stride
                  /\ out.saved[i].path.stem = FrameStem(i - 1)
                  /\ out.saved[i].path.dir = SamplerDir

\* The end-to-end scenario: 10 frames at 30 fps sampled at 5 fps give the two
\* frames 0 and 6, named frame_00000 and frame_00001.
C2_Witness ==
    /\ out # None
    /\ inp.video.n = 10 /\ inp.video.native_fps = 30 /\ inp.fps = 5
    /\ out.raised = "no"
    /\ Len(out.saved) = 2
    /\ out.saved[1].src = 0 /\ out.saved[2].src = 6
    /\ out.saved[2].path.stem = <<"frame_", "0", "0", "0", "0", "1">>

(***************************************************************************)
(* SpecFeatures: extract_biomechanics called on a sequence of records      *)
(*   given as str or as Path                                               *)
(***************************************************************************)
MaxRecords == 2

KpDirDirect == <<"kp">>

RecordPath(k) == File(KpDirDirect, FrameStem(k), "json")

\* Records with the hip at (1, 1) and the shoulder anywhere on the grid.
FeatureRecords ==
    {Landmarks(n, s, <<1, 1>>, <<2, 0>>, 90) : n \in LandmarkCounts, s \in Grid}

\* Sequences without repetition of the paths 0..MaxRecords-1, in any order.
PathOrders ==
    {q \in UNION {[1..m -> 0..(MaxRecords - 1)] : m \in 0..MaxRecords} :
        \A i, j \in DOMAIN q : i # j => q[i] # q[j]}

InitFeatures ==
    /\ \E q \in PathOrders, kind \in {"str", "Path"} :
         \E content \in [0..(MaxRecords - 1) -> FeatureRecords] :
            inp = [json_paths |-> [i \in DOMAIN q |-> RecordPath(q[i])],
                   kind |-> kind,
                   files |-> {[path |-> RecordPath(q[i]), lm |-> content[q[i]]] :
                                i \in DOMAIN q}]
    /\ out = None
    /\ LoopIdle
    /\ PipeIdle

ComputeFeatures ==
    /\ out = None
    /\ out' = extract_biomechanics(inp.json_paths, inp.kind, inp.files)
    /\ UNCHANGED <<inp, loopVars, pipeVars>>

NextFeatures == ComputeFeatures

SpecFeatures == InitFeatures /\ [][NextFeatures]_vars

\* The indices of the records that hold every required landmark, in order.
RECURSIVE CompleteIdx(_, _, _)
CompleteIdx(json_paths, files, i) ==
    IF i > Len(json_paths) THEN <<>>
    ELSE IF HasAll(Load(files, json_paths[i]), RequiredIdx)
         THEN <<i>> \o CompleteIdx(json_paths, files, i + 1)
         ELSE CompleteIdx(json_paths, files, i + 1)

\* C7: a record lacking a required index is skipped without raising and gives
\* no row; every other record gives exactly one row carrying its file stem;
\* rows are in the order of the records; the table is written in every case.
C7_SkipWithoutRaising ==
    out # None =>
        LET keep == CompleteIdx(inp.json_paths, inp.files, 1)
        IN  /\ out.raised = "no"
            /\ out.csv_written
            /\ Len(out.rows) = Len(keep)
            /\ \A k \in 1..Len(keep) :
                  out.rows[k].frame = Stem(inp.json_paths[keep[k]])

\* C8: every emitted row has trunk_deg in [0, 180], like its other two angles.
C8_TrunkInRange ==
    out # None =>
        \A k \in 1..Len(out.rows) :
            /\ 0 <= out.rows[k].trunk_deg
            /\ out.rows[k].trunk_deg <= Deg(180)

(***************************************************************************)
(* SpecTrail: the frame loop of one render_skeleton_video call, one frame  *)
(*   per step; the record of frame i puts landmark 16 at a position that   *)
(*   changes from frame to frame, visible or not, or lacks it              *)
(***************************************************************************)
MaxTrailFrames == 17

WristAt(i) == <<i % (MaxCoord + 1), (i \div (MaxCoord + 1)) % (MaxCoord + 1)>>

TrailRecords(i) ==
    {Landmarks(FullCount, <<2, 0>>, <<1, 1>>, WristAt(i), v) : v \in {10, VisThreshold, 90}}
        \cup {Landmarks(13, <<2, 0>>, <<1, 1>>, WristAt(i), 90)}

InitTrail ==
    /\ rIdx = 0
    /\ trail = <<>>
    /\ hist = <<>>
    /\ radii = <<>>
    /\ lastVisible = FALSE
    /\ CallIdle
    /\ PipeIdle

\* hist: the pixel position of landmark 16 in every frame that showed it.
RenderFrame ==
    /\ rIdx < MaxTrailFrames
    /\ \E lm \in TrailRecords(rIdx) :
         LET it == RenderIter(trail, lm, FrameW, FrameH)
             shown == 16 \in DOMAIN lm /\ lm[16].vis > VisThreshold
         IN  /\ trail' = it.trail
             /\ radii' = it.radii
             /\ lastVisible' = shown
             /\ hist' = IF shown
                        THEN Append(hist, <<(lm[16].x * FrameW) \div MaxCoord,
                                            (lm[16].y * FrameH) \div MaxCoord>>)
                        ELSE hist
    /\ rIdx' = rIdx + 1
    /\ UNCHANGED <<callVars, pipeVars>>

NextTrail == RenderFrame

SpecTrail == InitTrail /\ [][NextTrail]_vars

LastN(q, n) == SubSeq(q, Len(q) - Min2(n, Len(q)) + 1, Len(q))

TrailState ==
    /\ Len(trail) <= 15
    /\ trail = LastN(hist, 15)
    /\ Len(radii) = Len(trail)
    /\ \A k \in 1..Len(radii) : 0 <= radii[k] /\ radii[k] <= JOINT_R
    /\ \A k \in 1..(Len(radii) - 1) : radii[k] >= radii[k + 1]
    /\ (Len(radii) > 0 => radii[1] = JOINT_R)

HiddenKeepsTrail ==
    (rIdx' = rIdx + 1 /\ ~lastVisible') => trail' = trail

\* C10: after any sequence of processed frames the trail holds at most 15
\* positions and equals, in order, the positions of landmark 16 in the most
\* recent (up to 15) frames that showed it with visibility above 0.3; a frame
\* in which landmark 16 is absent or not visible leaves the trail unchanged; one
\* radius is drawn per entry, 6 for the most recent, never increasing towards
\* the oldest, and none is computed for an empty trail.
C10_Trail == []TrailState /\ [][HiddenKeepsTrail]_vars

C10_Witness ==
    /\ Len(hist) > 15
    /\ Len(trail) = 15
    /\ ~lastVisible
    /\ rIdx = MaxTrailFrames

====
